---- MODULE Spec2Model ----
(***************************************************************************)
(* upsum: summarize a system-update log with a generative model and mail   *)
(* the report.  Model of src/src/upsum/__main__.py: one run of main(),     *)
(* from the state after load_dotenv() and parse_args() to its return.      *)
(* Texts are sequences of one-character strings, so that str.lower(), the  *)
(* `in` substring test and re.search are computed on the characters.       *)
(***************************************************************************)
EXTENDS Integers, Sequences, FiniteSets, TLC

VARIABLES
  environ,          \* os.environ after load_dotenv()
  args,             \* the parsed command line
  pc,               \* the stage main() is at
  gemini_api_key,   \* locals of main()
  smtp_config,
  target_log_file,
  parsed_data,
  summary,
  content,          \* the text read by parse_log_file
  prompt,           \* the prompt handed to the model
  seen,             \* what the file system showed when the log was located
  stdout,           \* the lines printed
  calls,            \* how often each outside call was made
  mailbox,          \* the messages the SMTP server accepted
  result,           \* how the run ended
  stages            \* the stages the run went through

vars == <<environ, args, pc, gemini_api_key, smtp_config, target_log_file,
          parsed_data, summary, content, prompt, seen, stdout, calls, mailbox,
          result, stages>>

\* ------------------------------------------------------------------------
\* Bounds
\* ------------------------------------------------------------------------

\* a log text is the concatenation of at most MaxChunks chunks of Chunks
MaxChunks == 2

\* ------------------------------------------------------------------------
\* Characters and literals
\* ------------------------------------------------------------------------

UpperAlpha == <<"A", "B", "C", "D", "E", "F", "G", "H", "I", "J", "K", "L", "M", "N", "O", "P", "Q", "R", "S", "T", "U", "V", "W", "X", "Y", "Z">>

LowerAlpha == <<"a", "b", "c", "d", "e", "f", "g", "h", "i", "j", "k", "l", "m", "n", "o", "p", "q", "r", "s", "t", "u", "v", "w", "x", "y", "z">>

\* \d of the re module (ASCII part)
DigitChars == {"0", "1", "2", "3", "4", "5", "6", "7", "8", "9"}

\* \s of the re module (the part that occurs in the texts)
SpaceChars == {" ", "\n", "\t"}

\* "reboot is required"
PhraseRequired == <<"r", "e", "b", "o", "o", "t", " ", "i", "s", " ", "r", "e", "q", "u", "i", "r", "e", "d">>

\* "rebooting"
PhraseRebooting == <<"r", "e", "b", "o", "o", "t", "i", "n", "g">>

\* "DietPi-Update", "is", "now", "available": the literals of the regex
LitDietPi == <<"D", "i", "e", "t", "P", "i", "-", "U", "p", "d", "a", "t", "e">>

LitIs == <<"i", "s">>

LitNow == <<"n", "o", "w">>

LitAvailable == <<"a", "v", "a", "i", "l", "a", "b", "l", "e">>

\* ------------------------------------------------------------------------
\* Log texts the file may hold
\* ------------------------------------------------------------------------

\* "Reboot Is Required"
ChunkRequiredMixed == <<"R", "e", "b", "o", "o", "t", " ", "I", "s", " ", "R", "e", "q", "u", "i", "r", "e", "d">>

\* "REBOOTING"
ChunkRebootingUpper == <<"R", "E", "B", "O", "O", "T", "I", "N", "G">>

\* "reboot"
ChunkReboot == <<"r", "e", "b", "o", "o", "t">>

\* "ing"
ChunkIng == <<"i", "n", "g">>

\* "Upgrade: p (1 -> 2)\n"
ChunkUpgrade == <<"U", "p", "g", "r", "a", "d", "e", ":", " ", "p", " ", "(", "1", " ", "-", ">", " ", "2", ")", "\n">>

\* "Install: q (2)\n"
ChunkInstall == <<"I", "n", "s", "t", "a", "l", "l", ":", " ", "q", " ", "(", "2", ")", "\n">>

\* "DietPi-Update : v8.1 is now available\n"
ChunkDietPi == <<"D", "i", "e", "t", "P", "i", "-", "U", "p", "d", "a", "t", "e", " ", ":", " ", "v", "8", ".", "1", " ", "i", "s", " ", "n", "o", "w", " ", "a", "v", "a", "i", "l", "a", "b", "l", "e", "\n">>

Chunks == {ChunkRequiredMixed, ChunkRebootingUpper, ChunkReboot, ChunkIng,
           ChunkUpgrade, ChunkInstall, ChunkDietPi}

RECURSIVE TextsOf(_)
TextsOf(n) ==
  IF n = 0 THEN {<<>>}
  ELSE LET shorter == TextsOf(n - 1)
       IN  shorter \cup {t \o c : t \in shorter, c \in Chunks}

Texts == TextsOf(MaxChunks)

\* ------------------------------------------------------------------------
\* Python primitives
\* ------------------------------------------------------------------------

\* Python's None, for the string-valued names
None == "<None>"

\* Python's None, for the record-valued names
NoRecord == [none |-> TRUE]

\* truthiness of an optional string: `if x`, `not x`
Truthy(x) == x # None /\ x # ""

LowerChar(c) ==
  IF \E i \in 1..26 : UpperAlpha[i] = c
  THEN LowerAlpha[CHOOSE i \in 1..26 : UpperAlpha[i] = c]
  ELSE c

\* str.lower()
Lower(s) == [i \in 1..Len(s) |-> LowerChar(s[i])]

\* `sub in s` for str
In(sub, s) ==
  \E i \in 0..(Len(s) - Len(sub)) : SubSeq(s, i + 1, i + Len(sub)) = sub

\* s[i:].startswith(lit), i 1-based
StartsAt(s, i, lit) ==
  /\ i + Len(lit) - 1 <= Len(s)
  /\ SubSeq(s, i, i + Len(lit) - 1) = lit

\* first index >= i of s whose character is not in class (Len(s)+1 if none):
\* the end of a greedy  [class]*  started at i
RECURSIVE SpanEnd(_, _, _)
SpanEnd(s, i, class) ==
  IF i <= Len(s) /\ s[i] \in class THEN SpanEnd(s, i + 1, class) ELSE i

\* ------------------------------------------------------------------------
\* parse_log_file
\* ------------------------------------------------------------------------

\* mutant: the search is made on the text as it is, without .lower()
RebootRequired_NoLower(text) ==
  In(PhraseRequired, text) \/ In(PhraseRebooting, text)

\* line 30
RebootRequired(text) ==
  In(PhraseRequired, Lower(text)) \/ In(PhraseRebooting, Lower(text))

\* mutant: the lowered text is what is kept
parse_log_file_Lowered(text) ==
  [reboot_required |-> RebootRequired(text), log_content |-> Lower(text)]

\* lines 30-36, on the text read at lines 27-28
parse_log_file(text) ==
  [reboot_required |-> RebootRequired(text), log_content |-> text]

\* ------------------------------------------------------------------------
\* generate_summary_with_gemini: the prompt
\* ------------------------------------------------------------------------

\* the version captured when the regex of line 48 matches at index i of s,
\* <<>> when it does not match there.  Each \s+ and [\d.]+ is followed by a
\* character outside its class, so the greedy span is the only candidate.
DietPiMatchAt(s, i) ==
  LET a == i + Len(LitDietPi)
      b == SpanEnd(s, a, SpaceChars)
      c == b + 1
      d == SpanEnd(s, c, SpaceChars)
      e == d + 1
      f == SpanEnd(s, e, DigitChars \cup {"."})
      g == SpanEnd(s, f, SpaceChars)
      h == g + Len(LitIs)
      k == SpanEnd(s, h, SpaceChars)
      l == k + Len(LitNow)
      m == SpanEnd(s, l, SpaceChars)
  IN  IF /\ StartsAt(s, i, LitDietPi)
         /\ b > a /\ StartsAt(s, b, <<":">>)
         /\ d > c /\ StartsAt(s, d, <<"v">>)
         /\ f > e
         /\ g > f /\ StartsAt(s, g, LitIs)
         /\ k > h /\ StartsAt(s, k, LitNow)
         /\ m > l /\ StartsAt(s, m, LitAvailable)
      THEN SubSeq(s, e, f - 1)
      ELSE <<>>

\* re.search(...).group(1) of line 48-51: the leftmost match; <<>> for no match
DietPiVersion(s) ==
  LET hits == {i \in 1..Len(s) : DietPiMatchAt(s, i) # <<>>}
  IN  IF hits = {} THEN <<>>
      ELSE DietPiMatchAt(s, CHOOSE i \in hits : \A j \in hits : i <= j)

\* line 43
RebootText(parsed) ==
  IF parsed.reboot_required THEN "reboot needed" ELSE "reboot not needed"

\* lines 43-98: the parts of the prompt that depend on the log
BuildPrompt(parsed) ==
  [reboot_text |-> RebootText(parsed),
   log_content |-> parsed.log_content,
   dietpi_release_notes |-> DietPiVersion(parsed.log_content)]

\* what model.generate_content(prompt) / response.text may do (lines 100-101):
\* raise, or return a text, which may be empty
SummarizerOutcomes == {"<raise>", "", "REPORT"}

\* ------------------------------------------------------------------------
\* send_email
\* ------------------------------------------------------------------------

\* line 127
TLS_PORT == 587

\* line 155
DEFAULT_PORT == 587

\* MarkdownIt().render(body), line 110-111
Render(body) == IF body = "" THEN "" ELSE "<p>" \o body \o "</p>"

\* lines 114-123
BuildMessage(subject, body, cfg) ==
  [Subject |-> subject,
   From    |-> IF Truthy(cfg.from) THEN cfg.from ELSE "upsum@example.com",
   To      |-> cfg.to,
   plain   |-> body,
   html    |-> Render(body)]

\* line 130
LoginNeeded(cfg) == Truthy(cfg.user) /\ Truthy(cfg.password)

\* how the SMTP session of lines 126-132 may go: it succeeds, the connection
\* fails (OSError), login is refused (SMTPAuthenticationError), or sendmail
\* is refused (SMTPException)
SmtpOutcomes(cfg) ==
  {"ok", "OSError", "SMTPException"} \cup
  (IF LoginNeeded(cfg) THEN {"SMTPAuthenticationError"} ELSE {})

\* lines 133-138: every failure is re-raised as Exception; the class is kept
\* here as the reason
SendFailure(outcome) ==
  IF outcome = "SMTPAuthenticationError" THEN "AuthenticationFailed"
  ELSE "TransportFailed"

\* the calls made on the SMTP session before it ends with outcome
SessionCalls(c, cfg, outcome) ==
  [c EXCEPT
     !.smtp = @ + 1,
     !.starttls = IF outcome # "OSError" /\ cfg.port = TLS_PORT THEN @ + 1 ELSE @,
     !.login = IF outcome # "OSError" /\ LoginNeeded(cfg) THEN @ + 1 ELSE @,
     !.sendmail = IF outcome \in {"ok", "SMTPException"} THEN @ + 1 ELSE @]

\* ------------------------------------------------------------------------
\* find_latest_log_file
\* ------------------------------------------------------------------------

\* the entries a log directory may hold
Files == {"a.log", "b.log", ".hidden"}

\* modification times lie in 1..MaxMtime
MaxMtime == 2

\* what --log-dir may name: nothing, a plain file, or a directory, given by
\* the modification time of each of its entries
DirStates ==
  {[kind |-> "missing", mtime |-> <<>>], [kind |-> "file", mtime |-> <<>>]}
  \cup {[kind |-> "dir", mtime |-> m] :
          m \in UNION {[entries -> 1..MaxMtime] : entries \in SUBSET Files}}

\* glob.glob(log_dir / '*'), line 19: '*' does not match a leading dot
Glob(dir) == (DOMAIN dir.mtime) \ {".hidden"}

\* mutant: an empty directory is reported like a missing one
find_latest_log_file_EmptyRaises(dir) ==
  IF dir.kind # "dir" \/ Glob(dir) = {} THEN {"<raise>"}
  ELSE {f \in Glob(dir) : \A g \in Glob(dir) : dir.mtime[f] >= dir.mtime[g]}

\* lines 15-23: the results the call may have; among entries of equal
\* greatest mtime max() takes the first in glob's order, which is arbitrary
find_latest_log_file(dir) ==
  IF dir.kind # "dir" THEN {"<raise>"}
  ELSE IF Glob(dir) = {} THEN {None}
  ELSE {f \in Glob(dir) : \A g \in Glob(dir) : dir.mtime[f] >= dir.mtime[g]}

\* ------------------------------------------------------------------------
\* main
\* ------------------------------------------------------------------------

\* os.getenv(name, default)
getenv(name, default) ==
  IF environ[name] = None THEN default ELSE environ[name]

\* int() of line 155 on the value of SMTP_PORT; -1 stands for ValueError
IntOfPort(v) ==
  IF v = None THEN DEFAULT_PORT
  ELSE IF v = "25" THEN 25
  ELSE -1

\* the path given to --log-file
ExplicitPath == "/var/log/explicit.log"

\* lines 152-160
ReadConfig ==
  [host     |-> environ.SMTP_HOST,
   port     |-> IntOfPort(environ.SMTP_PORT),
   user     |-> getenv("SMTP_USER", ""),
   password |-> getenv("SMTP_PASSWORD", ""),
   from     |-> getenv("MAIL_FROM", ""),
   to       |-> environ.MAIL_TO]

\* mutant: the check of SMTP_HOST and MAIL_TO fires only when both are unset
SmtpRequiredMissing_Both(cfg) == ~Truthy(cfg.host) /\ ~Truthy(cfg.to)

\* line 168
SmtpRequiredMissing(cfg) == ~Truthy(cfg.host) \/ ~Truthy(cfg.to)

\* mutant: the handler prints nothing
ExceptOutput_Silent(reason) == <<>>

\* lines 208-209: what the handler prints
ExceptOutput(reason) == <<"An error occurred">>

\* mutant: the handler leaves the run where it was
ExceptPc_Stay(at) == at

\* lines 208-209: after the handler main() returns
ExceptPc(at) == "Failed"

\* mutant: --log-file is ignored
UseLogFile_Never(a) == FALSE

\* line 175
UseLogFile(a) == Truthy(a.log_file)

\* mutant: --dry-run is ignored
DryRun_Ignored(a) == FALSE

\* line 201
DryRun(a) == a.dry_run

NoCalls ==
  [exists |-> 0, listdir |-> 0, read |-> 0, generate |-> 0,
   smtp |-> 0, starttls |-> 0, login |-> 0, sendmail |-> 0]

Running == [kind |-> "Running", reason |-> ""]

Failed(reason) == [kind |-> "Failed", reason |-> reason]

\* the state when the try block of line 150 is entered: load_dotenv() and
\* parse_args() have run
Init ==
  /\ environ \in [GEMINI_API_KEY : {None, "", "key"},
                  SMTP_HOST : {None, "", "mail.example.com"},
                  SMTP_PORT : {None, "25", "abc"},
                  SMTP_USER : {None, "user"},
                  SMTP_PASSWORD : {None, "secret"},
                  MAIL_FROM : {None, "upsum@host"},
                  MAIL_TO : {None, "", "admin@example.com"}]
  /\ args \in [dry_run : BOOLEAN, log_file : {None, "", ExplicitPath}]
  /\ pc = "Idle"
  /\ gemini_api_key = None
  /\ smtp_config = NoRecord
  /\ target_log_file = None
  /\ parsed_data = NoRecord
  /\ prompt = NoRecord
  /\ seen = NoRecord
  /\ content = <<>>
  /\ summary = None
  /\ stdout = <<>>
  /\ calls = NoCalls
  /\ mailbox = <<>>
  /\ result = Running
  /\ stages = <<"Idle">>

\* lines 152-171: read the configuration and check the required values
LoadConfig ==
  /\ pc = "Idle"
  /\ UNCHANGED <<environ, args, target_log_file, parsed_data, prompt, summary,
                 content, seen, calls, mailbox>>
  /\ IF IntOfPort(environ.SMTP_PORT) = -1
     THEN \* int() raises inside the dict display: nothing is bound
          /\ gemini_api_key' = environ.GEMINI_API_KEY
          /\ smtp_config' = smtp_config
          /\ stdout' = stdout \o ExceptOutput("InvalidPort")
          /\ result' = Failed("InvalidPort")
          /\ pc' = ExceptPc(pc)
     ELSE /\ gemini_api_key' = environ.GEMINI_API_KEY
          /\ smtp_config' = ReadConfig
          /\ IF ~Truthy(environ.GEMINI_API_KEY)
             THEN /\ stdout' = stdout \o
                       <<"Error: GEMINI_API_KEY is not set.",
                         "Please create a .env file">>
                  /\ result' = Failed("ConfigurationMissing")
                  /\ pc' = "Failed"
             ELSE IF SmtpRequiredMissing(ReadConfig)
             THEN /\ stdout' = stdout \o
                       <<"Error: Required environment variables are not set.",
                         "Please create a .env file">>
                  /\ result' = Failed("ConfigurationMissing")
                  /\ pc' = "Failed"
             ELSE /\ stdout' = stdout
                  /\ result' = result
                  /\ pc' = "Locating"
  /\ stages' = Append(stages, pc')

\* lines 174-186: the given file, or the latest file of the log directory
Locate ==
  /\ pc = "Locating"
  /\ UNCHANGED <<environ, args, gemini_api_key, smtp_config, parsed_data,
                 prompt, summary, content, mailbox>>
  /\ IF UseLogFile(args)
     THEN \E exists \in BOOLEAN :
            /\ calls' = [calls EXCEPT !.exists = @ + 1]
            /\ target_log_file' = args.log_file
            /\ seen' = [what |-> "file", exists |-> exists]
            /\ IF exists
               THEN /\ stdout' = stdout \o <<"Processing log file">>
                    /\ result' = result
                    /\ pc' = "Parsing"
               ELSE /\ stdout' = stdout \o
                         <<"Error: Specified log file not found">>
                    /\ result' = Failed("FileNotFound")
                    /\ pc' = "Failed"
     ELSE \E dir \in DirStates : \E found \in find_latest_log_file(dir) :
            /\ calls' = [calls EXCEPT
                           !.listdir = IF dir.kind = "dir" THEN @ + 1 ELSE @]
            /\ seen' = [what |-> "dir", kind |-> dir.kind,
                        entries |-> DOMAIN dir.mtime]
            /\ IF found = "<raise>"
               THEN /\ target_log_file' = target_log_file
                    /\ stdout' = stdout \o ExceptOutput("FileNotFound")
                    /\ result' = Failed("FileNotFound")
                    /\ pc' = ExceptPc(pc)
               ELSE IF ~Truthy(found)
               THEN /\ target_log_file' = found
                    /\ stdout' = stdout \o
                         <<"No log files found. Nothing to do.">>
                    /\ result' = [kind |-> "Done", reason |-> "NothingToDo"]
                    /\ pc' = "Done"
               ELSE /\ target_log_file' = found
                    /\ stdout' = stdout \o <<"Processing log file">>
                    /\ result' = result
                    /\ pc' = "Parsing"
  /\ stages' = Append(stages, pc')

\* line 189 and parse_log_file: open() or read() may raise, else the content
\* is parsed
Parse ==
  /\ pc = "Parsing"
  /\ UNCHANGED <<environ, args, gemini_api_key, smtp_config, target_log_file,
                 prompt, summary, seen, mailbox>>
  /\ calls' = [calls EXCEPT !.read = @ + 1]
  /\ \/ /\ parsed_data' = parsed_data
        /\ content' = content
        /\ stdout' = stdout \o ExceptOutput("ReadFailed")
        /\ result' = Failed("ReadFailed")
        /\ pc' = ExceptPc(pc)
     \/ \E text \in Texts :
          /\ content' = text
          /\ parsed_data' = parse_log_file(text)
          /\ stdout' = stdout
          /\ result' = result
          /\ pc' = "Composing"
  /\ stages' = Append(stages, pc')

\* lines 192-198 and generate_summary_with_gemini
Compose ==
  /\ pc = "Composing"
  /\ UNCHANGED <<environ, args, gemini_api_key, smtp_config, target_log_file,
                 parsed_data, content, seen, mailbox>>
  /\ prompt' = BuildPrompt(parsed_data)
  /\ calls' = [calls EXCEPT !.generate = @ + 1]
  /\ \E text \in SummarizerOutcomes :
       IF text = "<raise>"
       THEN /\ summary' = summary
            /\ stdout' = stdout \o ExceptOutput("SummarizationFailed")
            /\ result' = Failed("SummarizationFailed")
            /\ pc' = ExceptPc(pc)
       ELSE /\ summary' = text
            /\ stdout' = stdout \o
                 <<"--- Generated Summary ---", text, "-------------------------">>
            /\ result' = result
            /\ pc' = "Delivering"
  /\ stages' = Append(stages, pc')

\* lines 201-206 and send_email
Deliver ==
  /\ pc = "Delivering"
  /\ UNCHANGED <<environ, args, gemini_api_key, smtp_config, target_log_file,
                 parsed_data, prompt, summary, content, seen>>
  /\ IF DryRun(args)
     THEN /\ stdout' = stdout \o <<"Dry run enabled. No email will be sent.">>
          /\ calls' = calls
          /\ mailbox' = mailbox
          /\ result' = [kind |-> "Done", reason |-> "Displayed"]
          /\ pc' = "Done"
     ELSE \E outcome \in SmtpOutcomes(smtp_config) :
            /\ calls' = SessionCalls(calls, smtp_config, outcome)
            /\ IF outcome = "ok"
               THEN /\ mailbox' = Append(mailbox,
                          BuildMessage("Daily update summary", summary, smtp_config))
                    /\ stdout' = stdout \o
                         <<"Sending email summary", "Email sent successfully.">>
                    /\ result' = [kind |-> "Done", reason |-> "Delivered"]
                    /\ pc' = "Done"
               ELSE /\ mailbox' = mailbox
                    /\ stdout' = stdout \o <<"Sending email summary">>
                                        \o ExceptOutput(SendFailure(outcome))
                    /\ result' = Failed(SendFailure(outcome))
                    /\ pc' = ExceptPc(pc)
  /\ stages' = Append(stages, pc')

Next == LoadConfig \/ Locate \/ Parse \/ Compose \/ Deliver

Spec == Init /\ [][Next]_vars

\* runs with a complete configuration and a given log file: every text of
\* Texts goes through parse_log_file and the prompt
InitParse ==
  /\ Init
  /\ environ = [GEMINI_API_KEY |-> "key", SMTP_HOST |-> "mail.example.com",
                SMTP_PORT |-> None, SMTP_USER |-> "user",
                SMTP_PASSWORD |-> "secret", MAIL_FROM |-> None,
                MAIL_TO |-> "admin@example.com"]
  /\ args.log_file = ExplicitPath

SpecParse == InitParse /\ [][Next]_vars

\* ------------------------------------------------------------------------
\* Vocabulary of the properties
\* ------------------------------------------------------------------------

Terminal == {"Done", "Failed"}

\* the number of lines of out that belong to lines
CountLines(out, lines) == Cardinality({i \in 1..Len(out) : out[i] \in lines})

ErrorLines ==
  {"Error: GEMINI_API_KEY is not set.",
   "Error: Required environment variables are not set.",
   "Error: Specified log file not found",
   "An error occurred"}

HintLines == {"Please create a .env file"}

\* a and b are the same letter up to its case
SameLetter(a, b) ==
  a = b \/ \E k \in 1..26 : {a, b} = {UpperAlpha[k], LowerAlpha[k]}

\* phrase occurs in text, in any letter case
OccursAnyCase(phrase, text) ==
  \E i \in 0..(Len(text) - Len(phrase)) :
    \A j \in 1..Len(phrase) : SameLetter(text[i + j], phrase[j])

\* a required configuration value is absent
RequiredMissing ==
  \/ ~Truthy(environ.GEMINI_API_KEY)
  \/ ~Truthy(environ.SMTP_HOST)
  \/ ~Truthy(environ.MAIL_TO)

\* no stage of the pipeline has done anything
NothingRan ==
  /\ calls = NoCalls
  /\ seen = NoRecord
  /\ target_log_file = None
  /\ parsed_data = NoRecord
  /\ summary = None
  /\ mailbox = <<>>

\* the mail transport was left alone
NoMail ==
  /\ calls.smtp = 0 /\ calls.starttls = 0 /\ calls.login = 0
  /\ calls.sendmail = 0
  /\ mailbox = <<>>

Rank(stage) ==
  CASE stage = "Idle" -> 0
    [] stage = "Locating" -> 1
    [] stage = "Parsing" -> 2
    [] stage = "Composing" -> 3
    [] stage = "Delivering" -> 4
    [] stage = "Done" -> 5
    [] stage = "Failed" -> 5

\* the package lines of the log, as the transitions they describe:
\* "Upgrade: name (old -> new)" and "Install: name (ver)"
NameChars ==
  {UpperAlpha[k] : k \in 1..26} \cup {LowerAlpha[k] : k \in 1..26}
  \cup DigitChars \cup {"_", ".", "-"}

VersionChars == DigitChars \cup {".", ":", "~", "+", "-"}

\* "Upgrade: "
LitUpgrade == <<"U", "p", "g", "r", "a", "d", "e", ":", " ">>

\* "Install: "
LitInstall == <<"I", "n", "s", "t", "a", "l", "l", ":", " ">>

\* the transition written at index i of s and the index after it, or NoRecord
TransitionAt(s, i) ==
  LET n0 == i + Len(LitUpgrade)
      n1 == SpanEnd(s, n0, NameChars)
      v0 == n1 + 2
      v1 == SpanEnd(s, v0, VersionChars)
      w0 == v1 + 4
      w1 == SpanEnd(s, w0, VersionChars)
      name == SubSeq(s, n0, n1 - 1)
  IN  IF /\ StartsAt(s, i, LitUpgrade) \/ StartsAt(s, i, LitInstall)
         /\ n1 > n0 /\ StartsAt(s, n1, <<" ", "(">>)
         /\ v1 > v0
      THEN IF /\ StartsAt(s, v1, <<" ", "-", ">", " ">>)
              /\ w1 > w0 /\ StartsAt(s, w1, <<")">>)
           THEN [t |-> [name |-> name, from |-> SubSeq(s, v0, v1 - 1),
                        to |-> SubSeq(s, w0, w1 - 1)],
                 next |-> w1 + 1]
           ELSE IF StartsAt(s, v1, <<")">>)
           THEN [t |-> [name |-> name, to |-> SubSeq(s, v0, v1 - 1)],
                 next |-> v1 + 1]
           ELSE NoRecord
      ELSE NoRecord

RECURSIVE TransitionsFrom(_, _)
TransitionsFrom(s, i) ==
  IF i > Len(s) THEN <<>>
  ELSE IF TransitionAt(s, i) # NoRecord
  THEN <<TransitionAt(s, i).t>> \o TransitionsFrom(s, TransitionAt(s, i).next)
  ELSE TransitionsFrom(s, i + 1)

ExpectedTransitions(s) == TransitionsFrom(s, 1)

\* ------------------------------------------------------------------------
\* Properties
\* ------------------------------------------------------------------------

\* C1: with --dry-run the mail transport is never used; once a summary has
\* been produced and the run has ended, the summary was printed and the run
\* is Done.
DryRunNeverSends ==
  args.dry_run =>
    /\ NoMail
    /\ (Truthy(summary) /\ pc \in Terminal) =>
         /\ pc = "Done"
         /\ result = [kind |-> "Done", reason |-> "Displayed"]
         /\ \E i \in 1..Len(stdout) : stdout[i] = summary

DryRunDisplayed ==
  /\ args.dry_run
  /\ pc = "Done"
  /\ summary = "REPORT"
  /\ stdout[Len(stdout)] = "Dry run enabled. No email will be sent."

\* C2: when the summarizer raises, the run ends Failed(SummarizationFailed),
\* the mail transport is never used and the summarizer was called once.
SummarizerErrorIsFinal ==
  (calls.generate >= 1 /\ summary = None) =>
    /\ pc = "Failed"
    /\ result = Failed("SummarizationFailed")
    /\ NoMail
    /\ calls.generate = 1

SummarizerRaised ==
  /\ result = Failed("SummarizationFailed")
  /\ ~args.dry_run
  /\ calls.generate = 1

\* C3: when GEMINI_API_KEY, SMTP_HOST or MAIL_TO is absent, the run ends
\* before any stage: nothing is listed, read, summarized or mailed, whatever
\* the other values and flags are.
MissingConfigStopsRun ==
  (RequiredMissing /\ pc # "Idle") =>
    /\ pc = "Failed"
    /\ stages = <<"Idle", "Failed">>
    /\ NothingRan

MissingHostStopped ==
  /\ pc = "Failed"
  /\ environ.GEMINI_API_KEY = "key"
  /\ environ.SMTP_HOST = None
  /\ environ.MAIL_TO = "admin@example.com"
  /\ result = Failed("ConfigurationMissing")

\* C4: without --log-file, a log directory without entries ends the run Done
\* with nothing to do, straight from Locating, and nothing is read,
\* summarized or mailed; a log directory that is missing or not a directory
\* ends the run Failed(FileNotFound).
EmptyDirIsNothingToDo ==
  (seen # NoRecord /\ seen.what = "dir") =>
    /\ (seen.kind = "dir" /\ seen.entries = {}) =>
         /\ pc = "Done"
         /\ result = [kind |-> "Done", reason |-> "NothingToDo"]
         /\ stages = <<"Idle", "Locating", "Done">>
         /\ calls.read = 0 /\ calls.generate = 0 /\ NoMail
         /\ parsed_data = NoRecord
    /\ (seen.kind # "dir") =>
         /\ pc = "Failed"
         /\ result = Failed("FileNotFound")
         /\ stages = <<"Idle", "Locating", "Failed">>

EmptyDirSeen ==
  /\ seen # NoRecord
  /\ seen.what = "dir" /\ seen.kind = "dir" /\ seen.entries = {}
  /\ pc = "Done"

\* C5: with --log-file the locator only tests that path: the directory is
\* never listed and the target is the given path; when the path does not
\* exist the run ends Failed(FileNotFound) and nothing is read, summarized
\* or mailed.
ExplicitPathOnly ==
  (Truthy(args.log_file) /\ seen # NoRecord) =>
    /\ seen.what = "file"
    /\ calls.listdir = 0
    /\ calls.exists = 1
    /\ target_log_file = args.log_file
    /\ ~seen.exists =>
         /\ pc = "Failed"
         /\ result = Failed("FileNotFound")
         /\ calls.read = 0 /\ calls.generate = 0 /\ NoMail

ExplicitPathAbsent ==
  /\ Truthy(args.log_file)
  /\ seen # NoRecord
  /\ seen.what = "file" /\ ~seen.exists
  /\ pc = "Failed"

\* C6 as stated: a run that ends in a handled error has printed exactly one
\* diagnostic line.
OneDiagnosticLine ==
  result.kind = "Failed" =>
    CountLines(stdout, ErrorLines \cup HintLines) = 1

\* C6 as amended: a run that ends in a handled error has printed exactly one
\* error line, followed by one hint line when (and only when) the error is a
\* missing configuration value; the run has ended and no outside call was
\* made twice.
OneErrorLine ==
  result.kind = "Failed" =>
    /\ CountLines(stdout, ErrorLines) = 1
    /\ CountLines(stdout, HintLines) =
         IF result.reason = "ConfigurationMissing" THEN 1 ELSE 0
    /\ result.reason = "ConfigurationMissing" =>
         stdout[Len(stdout)] \in HintLines
    /\ pc = "Failed"
    /\ \A c \in DOMAIN calls : calls[c] <= 1

TransportFailedOnce ==
  /\ result = Failed("TransportFailed")
  /\ calls.smtp = 1
  /\ CountLines(stdout, ErrorLines) = 1

\* C7: an empty summary ends the run Failed(SummarizationFailed) without
\* mail, and a run that is not dry reaches Delivering only with a summary
\* that is not empty.
EmptySummaryFails ==
  /\ summary = "" =>
       /\ pc = "Failed"
       /\ result = Failed("SummarizationFailed")
       /\ NoMail
  /\ (~args.dry_run /\ pc = "Delivering") => summary # ""

\* C8: reboot_required is true exactly when the text read holds
\* "reboot is required" or "rebooting" in some letter case.
RebootFlagMatchesText ==
  parsed_data # NoRecord =>
    parsed_data.reboot_required =
      (\/ OccursAnyCase(PhraseRequired, content)
       \/ OccursAnyCase(PhraseRebooting, content))

RebootFlagSetByUpperCase ==
  /\ parsed_data # NoRecord
  /\ parsed_data.reboot_required
  /\ content = ChunkInstall \o ChunkRebootingUpper

\* C9 as stated: the parser's output holds package_transitions, one entry
\* per Upgrade/Install line of the text, in the order of the lines.
ParserListsTransitions ==
  parsed_data # NoRecord =>
    /\ "package_transitions" \in DOMAIN parsed_data
    /\ parsed_data.package_transitions = ExpectedTransitions(content)

\* C9 as amended: the parser's output holds reboot_required and log_content
\* only; log_content is the text as read, and that text is what the prompt
\* carries to the summarizer, so the package lines reach the summarizer in
\* their order and with their duplicates, not extracted.
ParserKeepsRawLog ==
  /\ parsed_data # NoRecord =>
       /\ DOMAIN parsed_data = {"reboot_required", "log_content"}
       /\ parsed_data.log_content = content
  /\ prompt # NoRecord =>
       /\ prompt.log_content = content
       /\ ExpectedTransitions(prompt.log_content) = ExpectedTransitions(content)

TwoPackageLinesParsed ==
  /\ parsed_data # NoRecord
  /\ prompt # NoRecord
  /\ content = ChunkUpgrade \o ChunkInstall
  /\ ExpectedTransitions(content) =
       <<[name |-> <<"p">>, from |-> <<"1">>, to |-> <<"2">>],
         [name |-> <<"q">>, to |-> <<"2">>]>>

\* C10: the stages follow Idle, Locating, Parsing, Composing, Delivering,
\* Done: each step goes to the next stage, to Failed, or from Locating to
\* Done; nothing follows Done or Failed; after a failure no later stage has
\* called out; the mail transport is used at most once and only after the
\* summarizer returned.
StagesInOrder ==
  /\ stages[Len(stages)] = pc
  /\ \A i \in 1..(Len(stages) - 1) :
       /\ stages[i] \notin Terminal
       /\ Rank(stages[i]) < Rank(stages[i + 1])
       /\ \/ stages[i + 1] = "Failed"
          \/ Rank(stages[i + 1]) = Rank(stages[i]) + 1
          \/ stages[i] = "Locating" /\ stages[i + 1] = "Done"
  /\ (pc = "Failed" /\ Len(stages) >= 2) =>
       LET at == Rank(stages[Len(stages) - 1])
       IN  /\ at < 1 => calls.exists = 0 /\ calls.listdir = 0
           /\ at < 2 => calls.read = 0
           /\ at < 3 => calls.generate = 0
           /\ at < 4 => NoMail
  /\ calls.smtp <= 1 /\ calls.sendmail <= 1 /\ Len(mailbox) <= 1
  /\ calls.generate <= 1 /\ calls.read <= 1
  /\ calls.smtp >= 1 => (summary # None /\ calls.generate = 1)

FailedWhileDelivering ==
  /\ stages = <<"Idle", "Locating", "Parsing", "Composing", "Delivering", "Failed">>
  /\ result = Failed("AuthenticationFailed")
  /\ calls.smtp = 1 /\ calls.login = 1 /\ calls.sendmail = 0

====
